---- MODULE Spec2Model ----
(***************************************************************************)
(* GitStory: the OAuth exchange handlers, the repository/auth store        *)
(* (RepoProvider), the remote tool configurator (useGitHubMcp), the URL    *)
(* parser (parseGitHubUrl) and the component labelling of the canvas panel *)
(* and the component registry.                                             *)
(*                                                                         *)
(* The specifications share the variables; each one moves its own part     *)
(* of the state and leaves the rest at its initial value:                  *)
(*   SpecOAuth   the browser's cookie jar against the route handlers       *)
(*   Spec        one page: store, hook, thread effect, page-level handlers *)
(*   SpecRepo    the store's operations on the selected repository         *)
(*   SpecParse   parseGitHubUrl applied to inputs built from tokens        *)
(*   SpecLabels  componentsHistory / the registry over a message list      *)
(*   SpecCanvas  the canvas panel: selection, close, show signals          *)
(*   SpecNames   the two name inferences applied to elements               *)
(***************************************************************************)
EXTENDS Integers, Sequences, FiniteSets, TLC

VARIABLES
    \* --- server side / browser cookies (src/unnamed/part_005, app/api/auth) ---
    env,            \* process.env: which OAuth settings are configured
    cookies,        \* the browser's cookie jar for this origin
    request,        \* the request the last handler call received
    response,       \* the response the last handler call returned
    \* --- RepoProvider (src/src/contexts/repo-context.tsx:74-83) ---
    owner, repo, branch, isConnecting, connectionError, auth,
    pendingSave,    \* the save effect (repo-context.tsx:120) scheduled and not yet run
    inflight,       \* validateAndSetAuth calls awaiting the provider, per token
    \* --- the rest of the page ---
    ls,             \* localStorage: the items gitstory-repo and gitstory-auth
    mounted,        \* the mount effects have run and the listeners are registered
    config,         \* useGitHubMcp's state (part_001:15)
    threadId,       \* thread.id of the SDK's current thread
    previousThreadId, \* the ref of message-thread-full.tsx:73
    authStatus,     \* Home's authStatus.accessToken (status/route.ts:60)
    statusPending,  \* Home's checkAuth awaits GET /api/auth/status
    \* --- history, read by the properties only ---
    lastRepoEvent,  \* detail of the last gitstory-repo-changed dispatched
    lastAuthEvent,  \* detail of the last gitstory-auth-changed dispatched
    lastApplied,    \* the validation response last applied to the store
    lastOp,         \* the operation that made the last step
    \* --- the pure functions: parseGitHubUrl (repo-context.tsx:40-66) and the
    \*     two name inferences (canvas-panel.tsx:42, message-thread-full.tsx:439)
    input,          \* the argument of the call
    parsed,         \* what the call returned
    \* --- the thread the canvas panel and the registry read ---
    messages,       \* thread.messages
    history,        \* componentsHistory of the canvas panel
    registry,       \* components of ComponentRegistryProvider
    \* --- the canvas (canvas-panel.tsx:23, message-thread-full.tsx:233) ---
    showCanvas,     \* MessageThreadFull's showCanvas
    activeMessageId,\* CanvasPanel's activeMessageId; none while unmounted
    lastCanvasOp    \* history: the last thing that happened to the canvas

oauthVars == <<env, cookies, request, response>>

storeVars == <<owner, repo, branch, isConnecting, connectionError, auth,
               pendingSave, inflight>>

pageVars == <<ls, mounted, config, threadId, previousThreadId, authStatus,
              statusPending, lastRepoEvent, lastAuthEvent, lastApplied, lastOp>>

canvasVars == <<showCanvas, activeMessageId, lastCanvasOp>>

pureVars == <<input, parsed, messages, history, registry, canvasVars>>

vars == <<oauthVars, storeVars, pageVars, pureVars>>

\* The absent value of a string-valued slot (null / undefined / no cookie).
Null == "<null>"

(***************************************************************************)
(* OAuth handlers                                                          *)
(***************************************************************************)

\* Values crypto.randomUUID() can produce in the model.
StateValues == {"s1", "s2"}
\* Values an incoming `state` query parameter can have.
StateParams == StateValues \cup {Null, ""}
CodeParams == {Null, "", "c1"}
ErrorParams == {Null, "access_denied"}
ErrorDescriptions == {Null, "user denied"}
\* What the provider's token endpoint can answer to the POST.
TokenOutcomes == {"throw", "error_with_description", "error", "token", "no_token"}
\* What the provider's user endpoint can answer to the profile fetch.
UserOutcomes == {"throw", "not_ok", "ok", "bad_json"}
AccessTokens == {"t1", "t2"}

NoCookies ==
    [github_oauth_state |-> Null, github_access_token |-> Null, github_user |-> Null]

CookieNames == {"github_oauth_state", "github_access_token", "github_user"}

NoRequest ==
    [handler |-> "none", code |-> Null, state |-> Null, error |-> Null,
     error_description |-> Null, storedState |-> Null,
     tokenOutcome |-> "none", userOutcome |-> "none", token |-> Null,
     cookies |-> NoCookies]

\* A response: status, redirect target and its query, the cookies it sets and
\* deletes, and the outgoing calls the handler made while producing it.
NoResponse ==
    [handler |-> "none", status |-> 0, location |-> Null, error |-> Null,
     auth |-> Null, stateParam |-> Null, body |-> Null,
     set |-> [c \in {} |-> Null], attrs |-> [c \in {} |-> Null], deleted |-> {},
     comparedState |-> FALSE, tokenPost |-> FALSE, userFetch |-> FALSE]

\* The options of a cookies.set call that the claims read.
CookieAttrs(httpOnly, maxAge) == [httpOnly |-> httpOnly, maxAge |-> maxAge]

\* NextResponse.redirect(url): 307 unless a status is given.
RedirectStatus == 307

\* NextResponse.redirect(`${origin}/chat?error=${encodeURIComponent(msg)}`)
ErrorRedirect(msg, compared, posted, fetched) ==
    [NoResponse EXCEPT !.handler = "callback", !.status = RedirectStatus,
                       !.location = "/chat", !.error = msg,
                       !.comparedState = compared,
                       !.tokenPost = posted, !.userFetch = fetched]

\* The browser applies a response's Set-Cookie headers to its jar.
ApplyCookies(jar, resp) ==
    [n \in CookieNames |->
        IF n \in DOMAIN resp.set THEN resp.set[n]
        ELSE IF n \in resp.deleted THEN Null
        ELSE jar[n]]

\* a || b for strings: b when a is null, undefined or empty.
OrElse(a, b) == IF a = Null \/ a = "" THEN b ELSE a

\* !x for a string-valued slot.
Falsy(x) == x = Null \/ x = ""

\* The cookie value JSON.stringify({login, avatar_url, name}) of a profile.
UserCookieOf(token) == "user-of-" \o OrElse(token, "undefined")

StateCheckFails_NoCompare(storedState, state) == Falsy(storedState)

\* part_005:23  !storedState || storedState !== state
StateCheckFails(storedState, state) ==
    Falsy(storedState) \/ storedState # state

ConfigMissing_IdOnly(e) == ~e.clientId

\* part_005:30  !clientId || !clientSecret
ConfigMissing(e) == ~e.clientId \/ ~e.clientSecret

\* part_005:4-109, the callback handler as a function of the request.
CallbackResponse(req) ==
    IF ~Falsy(req.error)
    THEN ErrorRedirect(OrElse(req.error_description, "Authorization failed"),
                       FALSE, FALSE, FALSE)
    ELSE IF Falsy(req.code)
    THEN ErrorRedirect("No authorization code received", FALSE, FALSE, FALSE)
    ELSE IF StateCheckFails(req.storedState, req.state)
    THEN ErrorRedirect("Invalid state parameter", TRUE, FALSE, FALSE)
    ELSE IF ConfigMissing(env)
    THEN ErrorRedirect("OAuth not configured", TRUE, FALSE, FALSE)
    ELSE IF req.tokenOutcome = "throw"
    THEN ErrorRedirect("Authentication failed", TRUE, TRUE, FALSE)
    ELSE IF req.tokenOutcome = "error_with_description"
    THEN ErrorRedirect("bad_verification_code description", TRUE, TRUE, FALSE)
    ELSE IF req.tokenOutcome = "error"
    THEN ErrorRedirect("bad_verification_code", TRUE, TRUE, FALSE)
    ELSE IF req.userOutcome = "throw" \/ req.userOutcome = "bad_json"
    THEN ErrorRedirect("Authentication failed", TRUE, TRUE, TRUE)
    ELSE IF req.userOutcome = "not_ok"
    THEN ErrorRedirect("Failed to fetch user info", TRUE, TRUE, TRUE)
    ELSE [NoResponse EXCEPT
            !.handler = "callback", !.status = RedirectStatus,
            !.location = "/chat", !.auth = "success",
            !.deleted = {"github_oauth_state"},
            !.set = [c \in {"github_access_token", "github_user"} |->
                        IF c = "github_access_token" THEN req.token
                        ELSE UserCookieOf(req.token)],
            \* part_005:79-85 and 89-103: 30 days; only the token is http-only
            !.attrs = [c \in {"github_access_token", "github_user"} |->
                        CookieAttrs(c = "github_access_token", 60 * 60 * 24 * 30)],
            !.comparedState = TRUE, !.tokenPost = TRUE, !.userFetch = TRUE]

StatusBody_WhenPresent(jar) ==
    IF jar.github_access_token = Null
    THEN [authenticated |-> FALSE, user |-> Null, accessToken |-> Null]
    ELSE [authenticated |-> TRUE, user |-> jar.github_user,
          accessToken |-> jar.github_access_token]

\* status/route.ts:4-30, GET /api/auth/status as a function of the cookies.
StatusBody(jar) ==
    IF Falsy(jar.github_access_token)
    THEN [authenticated |-> FALSE, user |-> Null, accessToken |-> Null]
    ELSE [authenticated |-> TRUE, user |-> jar.github_user,
          accessToken |-> jar.github_access_token]

\* status/route.ts:24-28: NextResponse.json(body), status 200, no cookie call.
StatusResponse(jar) ==
    [NoResponse EXCEPT !.handler = "status", !.status = 200,
                       !.body = StatusBody(jar)]

InitiateResponse_Unguarded(e, st) ==
    [NoResponse EXCEPT
        !.handler = "initiate", !.status = RedirectStatus,
        !.location = "https://github.com/login/oauth/authorize",
        !.stateParam = st,
        !.set = [c \in {"github_oauth_state"} |-> st],
        !.attrs = [c \in {"github_oauth_state"} |-> CookieAttrs(TRUE, 60 * 10)]]

\* github/route.ts:4-36 as a function of the environment and of the value
\* crypto.randomUUID() returns.
InitiateResponse(e, st) ==
    IF ~e.clientId
    THEN [NoResponse EXCEPT !.handler = "initiate", !.status = 500,
                            !.error = "GitHub OAuth not configured"]
    ELSE [NoResponse EXCEPT
            !.handler = "initiate", !.status = RedirectStatus,
            !.location = "https://github.com/login/oauth/authorize",
            !.stateParam = st,
            !.set = [c \in {"github_oauth_state"} |-> st],
            !.attrs = [c \in {"github_oauth_state"} |-> CookieAttrs(TRUE, 60 * 10)]]

(***************************************************************************)
(* The page: local storage, RepoProvider, useGitHubMcp                     *)
(***************************************************************************)

\* Tokens setAuth is called with.
Tokens == {"t1", "t2"}
\* Arguments of setRepo: owner, repo, branch (Null: no branch given).
RepoArgs == {<<"octocat", "Hello-World", Null>>, <<"facebook", "react", "dev">>}
ThreadIds == {"th1", "th2"}
\* The number of validateAndSetAuth calls that may await the provider at once.
MaxInFlight == 2

\* A local-storage item: absent, a string that is not JSON, or the JSON the
\* code writes under the key.
NoItem == [kind |-> "absent"]
Corrupt == [kind |-> "corrupt"]
RepoItem(o, r, b) == [kind |-> "repo", owner |-> o, repo |-> r, branch |-> b]
AuthItem(t) == [kind |-> "auth", accessToken |-> t]

\* repo-context.tsx:79-83
NoAuth == [accessToken |-> Null, isAuthenticated |-> FALSE, user |-> Null]
\* The profile the provider returns for a token (login, avatar_url, name).
UserOf(t) == "user-of-" \o t

\* Details of the custom events.
NoEvent == [kind |-> "none"]
NullDetail == [kind |-> "null"]
RepoDetail(o, r, b) == [kind |-> "repo", owner |-> o, repo |-> r, branch |-> b]
AuthDetail(isAuth) == [kind |-> "auth", isAuthenticated |-> isAuth]

\* part_001:15-19
NoConfig == [owner |-> Null, repo |-> Null, accessToken |-> Null]

\* part_001:51-61
handleRepoChange(cfg, detail) ==
    IF detail.kind = "repo"
    THEN [cfg EXCEPT !.owner = detail.owner, !.repo = detail.repo]
    ELSE [cfg EXCEPT !.owner = Null, !.repo = Null]

handleAuthChange_KeepToken(cfg, isAuth, item) ==
    IF item.kind = "auth"
    THEN [cfg EXCEPT !.accessToken = OrElse(item.accessToken, Null)]
    ELSE cfg

\* part_001:63-77; item is what gitstory-auth holds when the event arrives.
handleAuthChange(cfg, isAuth, item) ==
    IF ~isAuth
    THEN [cfg EXCEPT !.accessToken = Null]
    ELSE IF item.kind = "auth"
    THEN [cfg EXCEPT !.accessToken = OrElse(item.accessToken, Null)]
    ELSE cfg

\* part_001:24-47: one try block around both reads, so a gitstory-repo that
\* does not parse ends the load before gitstory-auth is read.
loadState(cfg, store) ==
    IF store.repo.kind = "corrupt" THEN cfg
    ELSE LET c1 == IF store.repo.kind = "repo"
                   THEN [cfg EXCEPT !.owner = OrElse(store.repo.owner, Null),
                                    !.repo = OrElse(store.repo.repo, Null)]
                   ELSE cfg
         IN IF store.auth.kind = "auth"
            THEN [c1 EXCEPT !.accessToken = OrElse(store.auth.accessToken, Null)]
            ELSE c1

\* part_001:88-101
mcpServers(cfg) ==
    IF ~Falsy(cfg.accessToken) /\ ~Falsy(cfg.owner) /\ ~Falsy(cfg.repo)
    THEN << [url |-> "https://api.githubcopilot.com/mcp/", transport |-> "http",
             name |-> "github", Authorization |-> "Bearer " \o cfg.accessToken] >>
    ELSE << >>

\* window.dispatchEvent reaches the hook's listeners once they are registered
\* (part_001:79-80).
DispatchRepo(cfg, detail) == IF mounted THEN handleRepoChange(cfg, detail) ELSE cfg
DispatchAuth(cfg, isAuth, item) ==
    IF mounted THEN handleAuthChange(cfg, isAuth, item) ELSE cfg

\* The save effect of repo-context.tsx:120-128, with the owner, repo and
\* branch of the render that scheduled it.
NoEffect == [kind |-> "none"]
SaveEffect(o, r, b) == [kind |-> "save", owner |-> o, repo |-> r, branch |-> b]

SaveWrites_NoGuard(p) == p.kind = "save"

\* repo-context.tsx:121: the effect returns early without owner or repo.
SaveWrites(p) == p.kind = "save" /\ ~Falsy(p.owner) /\ ~Falsy(p.repo)

\* repo-context.tsx:123-127 applied to the storage, the hook and the event log.
SaveLs(p, store) ==
    IF SaveWrites(p)
    THEN [store EXCEPT !.repo = RepoItem(p.owner, p.repo, p.branch)] ELSE store
SaveConfig(p, cfg) ==
    IF SaveWrites(p)
    THEN DispatchRepo(cfg, RepoDetail(p.owner, p.repo, p.branch)) ELSE cfg
SaveEvent(p, ev) ==
    IF SaveWrites(p) THEN RepoDetail(p.owner, p.repo, p.branch) ELSE ev

(***************************************************************************)
(* parseGitHubUrl (repo-context.tsx:40-66). Strings are TLA+ strings, read *)
(* character by character with Len and SubSeq.                             *)
(***************************************************************************)

CharAt(s, i) == SubSeq(s, i, i)
Drop(s, n) == SubSeq(s, n + 1, Len(s))
Take(s, n) == SubSeq(s, 1, n)
StartsWith(s, p) == Len(s) >= Len(p) /\ Take(s, Len(p)) = p
EndsWith(s, p) == Len(s) >= Len(p) /\ Drop(s, Len(s) - Len(p)) = p
CharsOf(s) == {CharAt(s, i) : i \in 1..Len(s)}
HasChar(s, c) == \E i \in 1..Len(s) : CharAt(s, i) = c

\* The white space and line terminators String.prototype.trim removes.
WhiteSpace == {" ", "\t", "\n", "\r"}
\* The characters `.` does not match (no s flag).
LineTerminators == {"\n", "\r"}

Min(S) == CHOOSE x \in S : \A y \in S : x <= y
Max(S) == CHOOSE x \in S : \A y \in S : x >= y

\* input.trim()
Trim(s) ==
    LET keep == {i \in 1..Len(s) : CharAt(s, i) \notin WhiteSpace}
    IN IF keep = {} THEN "" ELSE SubSeq(s, Min(keep), Max(keep))

\* The length of the longest prefix of s without "/": what a greedy [^/]+
\* consumes before it gives characters back.
SegmentLen(s) ==
    LET slashes == {i \in 1..Len(s) : CharAt(s, i) = "/"}
    IN IF slashes = {} THEN Len(s) ELSE Min(slashes) - 1

\* The result of a call: null, or {owner, repo, branch} with branch Null
\* when the property is undefined or missing.
NullResult == [kind |-> "null"]
Parsed(o, r, b) == [kind |-> "parsed", owner |-> o, repo |-> r, branch |-> b]
NoMatch == [ok |-> FALSE, branch |-> Null]

\* (?:\/.*)?$  at the end of the HTTPS pattern: nothing, or "/" and then any
\* characters but line terminators, up to the end of the input.
TrailMatches(v) ==
    \/ v = ""
    \/ /\ StartsWith(v, "/")
       /\ CharsOf(Drop(v, 1)) \cap LineTerminators = {}

\* (?:\/tree\/([^/]+))?(?:\/.*)?$ : the group is tried first; [^/]+ is
\* greedy and what follows it must be the end or a "/", so only the whole
\* segment can be the branch. Without the group the branch is undefined.
TreeTrailMatch(u) ==
    LET v == Drop(u, 6)
        b == SegmentLen(v)
    IN IF StartsWith(u, "/tree/") /\ b >= 1 /\ TrailMatches(Drop(v, b))
       THEN [ok |-> TRUE, branch |-> Take(v, b)]
       ELSE IF TrailMatches(u) THEN [ok |-> TRUE, branch |-> Null]
       ELSE NoMatch

\* (?:\.git)?(?:\/tree\/([^/]+))?(?:\/.*)?$ : ".git" is consumed first when
\* it is there, and given back when the rest then fails.
HttpsTailMatch(t) ==
    LET withGit == IF StartsWith(t, ".git") THEN TreeTrailMatch(Drop(t, 4))
                   ELSE NoMatch
    IN IF withGit.ok THEN withGit ELSE TreeTrailMatch(t)

\* (\.git)?$ at the end of the SSH pattern.
SshTailMatches(t) == t = ".git" \/ t = ""

RepoLength_Greedy(ks) == Max(ks)

\* ([^/]+?) is lazy: of the lengths for which the rest of the pattern
\* matches, the shortest is the capture.
RepoLength(ks) == Min(ks)

\* repo-context.tsx:46-49
sshMatch(trimmed) ==
    LET body == Drop(trimmed, Len("git@github.com:"))
        n == SegmentLen(body)
        rest == Drop(body, n + 1)
        ks == {k \in 1..Len(rest) :
                  /\ ~HasChar(Take(rest, k), "/")
                  /\ SshTailMatches(Drop(rest, k))}
    IN IF /\ StartsWith(trimmed, "git@github.com:")
          /\ n >= 1 /\ n < Len(body)
          /\ ks # {}
       THEN Parsed(Take(body, n), Take(rest, RepoLength(ks)), Null)
       ELSE NullResult

\* repo-context.tsx:52-57
httpsMatch(trimmed) ==
    LET afterScheme == IF StartsWith(trimmed, "https://") THEN Drop(trimmed, 8)
                       ELSE IF StartsWith(trimmed, "http://") THEN Drop(trimmed, 7)
                       ELSE trimmed
        body == Drop(afterScheme, Len("github.com/"))
        n == SegmentLen(body)
        rest == Drop(body, n + 1)
        ks == {k \in 1..Len(rest) :
                  /\ ~HasChar(Take(rest, k), "/")
                  /\ HttpsTailMatch(Drop(rest, k)).ok}
    IN IF /\ StartsWith(afterScheme, "github.com/")
          /\ n >= 1 /\ n < Len(body)
          /\ ks # {}
       THEN LET k == RepoLength(ks)
            IN Parsed(Take(body, n), Take(rest, k), HttpsTailMatch(Drop(rest, k)).branch)
       ELSE NullResult

\* [a-zA-Z0-9_-] and [a-zA-Z0-9_.-]
OwnerChars ==
    CharsOf("abcdefghijklmnopqrstuvwxyzABCDEFGHIJKLMNOPQRSTUVWXYZ0123456789_-")
RepoChars == OwnerChars \cup {"."}

\* repo-context.tsx:60-63
shorthandMatch(trimmed) ==
    LET n == SegmentLen(trimmed)
        rest == Drop(trimmed, n + 1)
    IN IF /\ n >= 1 /\ n < Len(trimmed)
          /\ rest # ""
          /\ CharsOf(Take(trimmed, n)) \subseteq OwnerChars
          /\ CharsOf(rest) \subseteq RepoChars
       THEN Parsed(Take(trimmed, n), rest, Null)
       ELSE NullResult

\* repo-context.tsx:40-66. An input is [isString, text]; the text of an input
\* that is no string (null, undefined, a number) is not read.
parseGitHubUrl(in) ==
    IF ~in.isString \/ in.text = "" THEN NullResult
    ELSE LET trimmed == Trim(in.text)
         IN IF sshMatch(trimmed).kind = "parsed" THEN sshMatch(trimmed)
            ELSE IF httpsMatch(trimmed).kind = "parsed" THEN httpsMatch(trimmed)
            ELSE IF shorthandMatch(trimmed).kind = "parsed" THEN shorthandMatch(trimmed)
            ELSE NullResult

NoInput == [isString |-> TRUE, text |-> ""]
NotCalled == [kind |-> "not called"]

\* The variables of the pure functions, before any call.
PureIdle ==
    /\ input = NoInput
    /\ parsed = NotCalled
    /\ messages = << >>
    /\ history = << >>
    /\ registry = << >>
    /\ showCanvas = TRUE
    /\ activeMessageId = Null
    /\ lastCanvasOp = [op |-> "none", messageId |-> Null]

\* Every component of the page in its initial state, before the page loads.
PageIdle ==
    /\ owner = Null /\ repo = Null /\ branch = "main"
    /\ isConnecting = FALSE /\ connectionError = Null /\ auth = NoAuth
    /\ pendingSave = NoEffect
    /\ inflight = [t \in Tokens |-> 0]
    /\ mounted = FALSE
    /\ config = NoConfig
    /\ threadId = Null /\ previousThreadId = Null
    /\ authStatus = Null /\ statusPending = FALSE
    /\ lastRepoEvent = NoEvent /\ lastAuthEvent = NoEvent
    /\ lastApplied = [token |-> Null, ok |-> FALSE]
    /\ lastOp = [op |-> "init", writer |-> "none", wasAuth |-> FALSE,
                 hadToken |-> FALSE, phase |-> "none", issued |-> Null]

\* app/api/auth/github/route.ts:4-36, the initiate handler.
Initiate ==
    /\ request' = [NoRequest EXCEPT !.handler = "initiate", !.cookies = cookies]
    /\ \E st \in StateValues : response' = InitiateResponse(env, st)
    /\ cookies' = ApplyCookies(cookies, response')
    /\ UNCHANGED <<env, storeVars, pageVars, pureVars>>

\* A callback request arrives with the browser's cookies; the provider's
\* answers to the two outgoing calls are inputs.
Callback ==
    \E code \in CodeParams, st \in StateParams, err \in ErrorParams,
       desc \in ErrorDescriptions, tout \in TokenOutcomes, uout \in UserOutcomes,
       tok \in AccessTokens :
        \* inputs the handler never reads on a path are fixed, not enumerated
        /\ err = Null => desc = Null
        /\ tout # "token" => tok = "t1"
        /\ tout \in {"throw", "error_with_description", "error"} => uout = "throw"
        /\ request' = [handler |-> "callback", code |-> code, state |-> st,
                       error |-> err, error_description |-> desc,
                       storedState |-> cookies.github_oauth_state,
                       tokenOutcome |-> tout, userOutcome |-> uout,
                       token |-> IF tout = "token" THEN tok ELSE Null,
                       cookies |-> cookies]
        /\ response' = CallbackResponse(request')
        /\ cookies' = ApplyCookies(cookies, response')
        /\ UNCHANGED <<env, storeVars, pageVars, pureVars>>

\* The Cookie header a status request can carry: the browser's jar, or the
\* session cookie with an empty value (github_access_token=), which any
\* client that writes the header itself can send.
SentCookies(jar) == {jar, [jar EXCEPT !.github_access_token = ""]}

\* status/route.ts:4-30, GET /api/auth/status.
Status ==
    \E sent \in SentCookies(cookies) :
        /\ request' = [NoRequest EXCEPT !.handler = "status", !.cookies = sent]
        /\ response' = StatusResponse(sent)
        /\ cookies' = ApplyCookies(cookies, response')
        /\ UNCHANGED <<env, storeVars, pageVars, pureVars>>

InitOAuth ==
    /\ env \in [clientId : BOOLEAN, clientSecret : BOOLEAN]
    /\ cookies = NoCookies
    /\ request = NoRequest
    /\ response = NoResponse
    /\ PageIdle
    /\ PureIdle
    /\ ls = [repo |-> NoItem, auth |-> NoItem]

NextOAuth ==
    \/ Initiate
    \/ Callback
    \/ Status

SpecOAuth == InitOAuth /\ [][NextOAuth]_vars

(***************************************************************************)
(* The page's operations                                                   *)
(***************************************************************************)

\* What the history records of a step: the operation, the component that
\* wrote or removed a local-storage key in it, what held before it, and the
\* token of the validation issued last.
Op(name, writer, phase) ==
    [op |-> name, writer |-> writer, wasAuth |-> auth.isAuthenticated,
     hadToken |-> ls.auth.kind = "auth", phase |-> phase,
     issued |-> lastOp.issued]

Deps == <<owner, repo, branch>>
StoreState == <<owner, repo, branch, isConnecting, connectionError, auth>>

\* The render that follows a handler of the store. React runs the effects of
\* the previous render that are still pending before it renders again, so a
\* pending save effect runs here, after the handler's own writes (lsMid,
\* cfgMid, evMid) and with the values of the render that scheduled it. The
\* new render schedules the effect again when owner, repo or branch changed
\* (the dependency list of repo-context.tsx:128). A handler that changes no
\* state causes no render.
StoreCommit(lsMid, cfgMid, evMid) ==
    LET changed == StoreState' # StoreState
        p == IF changed THEN pendingSave ELSE NoEffect
    IN /\ ls' = SaveLs(p, lsMid)
       /\ config' = SaveConfig(p, cfgMid)
       /\ lastRepoEvent' = SaveEvent(p, evMid)
       /\ pendingSave' = IF ~changed THEN pendingSave
                         ELSE IF Deps' # Deps
                         THEN SaveEffect(owner', repo', branch')
                         ELSE NoEffect

InFlightTotal == inflight["t1"] + inflight["t2"]

ItemAtDispatch_BeforeWrite(before, after) == before

\* What gitstory-auth holds when the listeners of gitstory-auth-changed run:
\* localStorage.setItem precedes window.dispatchEvent (repo-context.tsx:153-159,
\* status/route.ts:89-98), and dispatchEvent calls the listeners synchronously.
ItemAtDispatch(before, after) == after

IsThreadSwitch_AnyChange(previous, id) == previous # id

\* message-thread-full.tsx:80: previousThreadId.current &&
\* previousThreadId.current !== thread.id
IsThreadSwitch(previous, id) == ~Falsy(previous) /\ previous # id

StartValidation_Deduplicated(token) ==
    /\ isConnecting' = TRUE
    /\ connectionError' = Null
    /\ inflight' = [inflight EXCEPT ![token] = IF isConnecting THEN @ ELSE @ + 1]

\* repo-context.tsx:130-132, validateAndSetAuth up to its await.
StartValidation(token) ==
    /\ isConnecting' = TRUE
    /\ connectionError' = Null
    /\ inflight' = [inflight EXCEPT ![token] = @ + 1]

\* The page loads: the mount effects of RepoProvider (repo-context.tsx:89-117)
\* and of useGitHubMcp (part_001:21-49, 79-80) run, and Home starts checkAuth
\* (status/route.ts:68-108).
Mount ==
    /\ ~mounted
    /\ mounted' = TRUE
    /\ IF ls.repo.kind = "repo" /\ ~Falsy(ls.repo.owner) /\ ~Falsy(ls.repo.repo)
       THEN /\ owner' = ls.repo.owner
            /\ repo' = ls.repo.repo
            /\ branch' = OrElse(ls.repo.branch, "main")
       ELSE UNCHANGED <<owner, repo, branch>>
    /\ IF ls.auth.kind = "auth" /\ ~Falsy(ls.auth.accessToken)
       THEN StartValidation(ls.auth.accessToken)
       ELSE UNCHANGED <<isConnecting, connectionError, inflight>>
    /\ config' = loadState(NoConfig, ls)
    /\ pendingSave' = IF Deps' # Deps THEN SaveEffect(owner', repo', branch')
                      ELSE NoEffect
    /\ statusPending' = TRUE
    /\ lastOp' = [Op("mount", "none",
                      IF lastOp.phase = "reloaded" THEN "loaded" ELSE "none")
                   EXCEPT !.issued = IF inflight' # inflight
                                     THEN ls.auth.accessToken ELSE @]
    /\ UNCHANGED <<auth, ls, threadId, previousThreadId, authStatus,
                   lastRepoEvent, lastAuthEvent, lastApplied, oauthVars, pureVars>>

\* The page is loaded afresh: every component starts from its initial state;
\* local storage and the cookies stay.
Reload ==
    /\ mounted
    /\ mounted' = FALSE
    /\ owner' = Null /\ repo' = Null /\ branch' = "main"
    /\ isConnecting' = FALSE /\ connectionError' = Null /\ auth' = NoAuth
    /\ pendingSave' = NoEffect
    /\ inflight' = [t \in Tokens |-> 0]
    /\ config' = NoConfig
    /\ threadId' = Null /\ previousThreadId' = Null
    /\ authStatus' = Null /\ statusPending' = FALSE
    /\ lastRepoEvent' = NoEvent /\ lastAuthEvent' = NoEvent
    /\ lastApplied' = [token |-> Null, ok |-> FALSE]
    /\ lastOp' = [Op("reload", "none",
                      IF lastOp.phase = "disconnected" THEN "reloaded" ELSE "none")
                   EXCEPT !.issued = Null]
    /\ UNCHANGED <<ls, oauthVars, pureVars>>

\* The scheduler runs the pending save effect (repo-context.tsx:120-128).
RunSave ==
    /\ pendingSave.kind = "save"
    /\ ls' = SaveLs(pendingSave, ls)
    /\ config' = SaveConfig(pendingSave, config)
    /\ lastRepoEvent' = SaveEvent(pendingSave, lastRepoEvent)
    /\ pendingSave' = NoEffect
    /\ lastOp' = Op("runSave", IF SaveWrites(pendingSave) THEN "RepoProvider" ELSE "none",
                    lastOp.phase)
    /\ UNCHANGED <<owner, repo, branch, isConnecting, connectionError, auth,
                   inflight, mounted, threadId, previousThreadId, authStatus,
                   statusPending, lastAuthEvent, lastApplied, oauthVars, pureVars>>

NextBranch_Default(newBranch) ==
    IF ~Falsy(newBranch) THEN newBranch ELSE "main"

\* repo-context.tsx:172: if (newBranch) setBranch(newBranch)
NextBranch(newBranch) ==
    IF ~Falsy(newBranch) THEN newBranch ELSE branch

SetRepoState_OwnerOnly(newOwner, newRepo, newBranch) ==
    /\ owner' = newOwner
    /\ repo' = repo
    /\ branch' = NextBranch(newBranch)

\* repo-context.tsx:170-172, the three state setters.
SetRepoState(newOwner, newRepo, newBranch) ==
    /\ owner' = newOwner
    /\ repo' = newRepo
    /\ branch' = NextBranch(newBranch)

\* repo-context.tsx:169-173
setRepoAction(newOwner, newRepo, newBranch) ==
    /\ mounted
    /\ SetRepoState(newOwner, newRepo, newBranch)
    /\ UNCHANGED <<isConnecting, connectionError, auth, inflight>>
    /\ StoreCommit(ls, config, lastRepoEvent)
    /\ lastOp' = Op("setRepo", IF SaveWrites(pendingSave) /\ StoreState' # StoreState
                               THEN "RepoProvider" ELSE "none", "setRepo")
    /\ UNCHANGED <<mounted, threadId, previousThreadId, authStatus,
                   statusPending, lastAuthEvent, lastApplied, oauthVars, pureVars>>

\* repo-context.tsx:175-181: input is the url of the call and parsed what the
\* call returns.
parseAndSetRepo(url) ==
    /\ mounted
    /\ input' = [isString |-> TRUE, text |-> url]
    /\ parsed' = parseGitHubUrl(input')
    /\ IF parsed'.kind = "parsed"
       THEN SetRepoState(parsed'.owner, parsed'.repo, parsed'.branch)
       ELSE UNCHANGED <<owner, repo, branch>>
    /\ UNCHANGED <<isConnecting, connectionError, auth, inflight>>
    /\ StoreCommit(ls, config, lastRepoEvent)
    /\ lastOp' = Op("parseAndSetRepo",
                    IF SaveWrites(pendingSave) /\ StoreState' # StoreState
                    THEN "RepoProvider" ELSE "none", "none")
    /\ UNCHANGED <<mounted, threadId, previousThreadId, authStatus,
                   statusPending, lastAuthEvent, lastApplied, oauthVars>>
    /\ UNCHANGED <<messages, history, registry, canvasVars>>

\* repo-context.tsx:183-189
disconnect ==
    /\ mounted
    /\ owner' = Null
    /\ repo' = Null
    /\ branch' = "main"
    /\ UNCHANGED <<isConnecting, connectionError, auth, inflight>>
    /\ StoreCommit([ls EXCEPT !.repo = NoItem],
                   DispatchRepo(config, NullDetail), NullDetail)
    /\ lastOp' = Op("disconnect", "RepoProvider", "disconnected")
    /\ UNCHANGED <<mounted, threadId, previousThreadId, authStatus,
                   statusPending, lastAuthEvent, lastApplied, oauthVars, pureVars>>

\* repo-context.tsx:130-140, setAuth(token) up to the await of the fetch.
setAuth(token) ==
    /\ mounted
    /\ InFlightTotal < MaxInFlight
    /\ StartValidation(token)
    /\ UNCHANGED <<owner, repo, branch, auth>>
    /\ StoreCommit(ls, config, lastRepoEvent)
    /\ lastOp' = [Op("setAuth", IF SaveWrites(pendingSave) /\ StoreState' # StoreState
                                THEN "RepoProvider" ELSE "none", "none")
                   EXCEPT !.issued = token]
    /\ UNCHANGED <<mounted, threadId, previousThreadId, authStatus,
                   statusPending, lastAuthEvent, lastApplied, oauthVars, pureVars>>

\* repo-context.tsx:142-159 and 164-166: the provider accepted the token.
validateSucceeds(token) ==
    /\ inflight[token] > 0
    /\ inflight' = [inflight EXCEPT ![token] = @ - 1]
    /\ auth' = [accessToken |-> token, isAuthenticated |-> TRUE, user |-> UserOf(token)]
    /\ isConnecting' = FALSE
    /\ UNCHANGED <<owner, repo, branch, connectionError>>
    /\ LET lsMid == [ls EXCEPT !.auth = AuthItem(token)]
       IN StoreCommit(lsMid,
                      DispatchAuth(config, TRUE, ItemAtDispatch(ls.auth, lsMid.auth)),
                      lastRepoEvent)
    /\ lastAuthEvent' = AuthDetail(TRUE)
    /\ lastApplied' = [token |-> token, ok |-> TRUE]
    /\ lastOp' = Op("authOk", "RepoProvider", "none")
    /\ UNCHANGED <<mounted, threadId, previousThreadId, authStatus,
                   statusPending, oauthVars, pureVars>>

FailedAuth_KeepToken == [auth EXCEPT !.isAuthenticated = FALSE]

\* repo-context.tsx:162
FailedAuth == NoAuth

ErrorMessage_Null(why) == Null

\* repo-context.tsx:142 and 161: the message of the error that was caught.
ErrorMessage(why) ==
    IF why = "not_ok" THEN "Invalid or expired token" ELSE "Failed to fetch"

\* repo-context.tsx:160-166: a non-success status, or the fetch threw.
validateFails(token, why) ==
    /\ inflight[token] > 0
    /\ inflight' = [inflight EXCEPT ![token] = @ - 1]
    /\ connectionError' = ErrorMessage(why)
    /\ auth' = FailedAuth
    /\ isConnecting' = FALSE
    /\ UNCHANGED <<owner, repo, branch>>
    /\ StoreCommit([ls EXCEPT !.auth = NoItem], config, lastRepoEvent)
    /\ lastApplied' = [token |-> token, ok |-> FALSE]
    /\ lastOp' = Op("authFail", "RepoProvider", "none")
    /\ UNCHANGED <<mounted, threadId, previousThreadId, authStatus,
                   statusPending, lastAuthEvent, oauthVars, pureVars>>

\* repo-context.tsx:191-197
clearAuth ==
    /\ mounted
    /\ auth' = NoAuth
    /\ UNCHANGED <<owner, repo, branch, isConnecting, connectionError, inflight>>
    /\ StoreCommit([ls EXCEPT !.auth = NoItem],
                   DispatchAuth(config, FALSE, NoItem), lastRepoEvent)
    /\ lastAuthEvent' = AuthDetail(FALSE)
    /\ lastOp' = Op("clearAuth", "RepoProvider", "none")
    /\ UNCHANGED <<mounted, threadId, previousThreadId, authStatus,
                   statusPending, lastApplied, oauthVars, pureVars>>

\* message-thread-full.tsx:76-91: thread.id changes and the effect runs.
switchThread(id) ==
    /\ mounted
    /\ authStatus # Null
    /\ id # threadId
    /\ threadId' = id
    /\ previousThreadId' = id
    /\ IF IsThreadSwitch(previousThreadId, id)
       THEN /\ ls' = [ls EXCEPT !.repo = NoItem]
            /\ config' = DispatchRepo(config, NullDetail)
            /\ lastRepoEvent' = NullDetail
            /\ lastOp' = Op("switchThread", "MessageThreadFull", "none")
       ELSE /\ UNCHANGED <<ls, config, lastRepoEvent>>
            /\ lastOp' = Op("firstThread", "none", "none")
    /\ UNCHANGED <<storeVars, mounted, authStatus, statusPending,
                   lastAuthEvent, lastApplied, oauthVars, pureVars>>

\* status/route.ts:82-104: the answer to Home's GET /api/auth/status arrives,
\* or the fetch throws.
checkAuth(ok) ==
    /\ statusPending
    /\ statusPending' = FALSE
    /\ LET data == StatusBody(cookies)
       IN IF ok
          THEN /\ authStatus' = data.accessToken
               /\ IF data.authenticated /\ ~Falsy(data.accessToken)
                  THEN /\ ls' = [ls EXCEPT !.auth = AuthItem(data.accessToken)]
                       /\ config' = DispatchAuth(config, TRUE,
                                                 ItemAtDispatch(ls.auth, ls'.auth))
                       /\ lastAuthEvent' = AuthDetail(TRUE)
                       /\ lastOp' = Op("checkAuth", "Home", "none")
                  ELSE /\ UNCHANGED <<ls, config, lastAuthEvent>>
                       /\ lastOp' = Op("checkAuth", "none", "none")
          ELSE /\ UNCHANGED <<authStatus, ls, config, lastAuthEvent>>
               /\ lastOp' = Op("checkAuth", "none", "none")
    /\ UNCHANGED <<storeVars, mounted, threadId, previousThreadId,
                   lastRepoEvent, lastApplied, oauthVars, pureVars>>

\* status/route.ts:33-38, DELETE /api/auth/status.
LogoutResponse ==
    [NoResponse EXCEPT !.handler = "logout", !.status = 200,
                       !.deleted = {"github_access_token", "github_user"}]

\* status/route.ts:114-129: Home's Disconnect button. The chat (and with it
\* MessageThreadFull) is rendered only while authStatus.authenticated.
handleDisconnect(ok) ==
    /\ mounted
    /\ authStatus # Null
    /\ IF ok
       THEN /\ cookies' = ApplyCookies(cookies, LogoutResponse)
            /\ authStatus' = Null
            /\ ls' = [repo |-> NoItem, auth |-> NoItem]
            /\ config' = DispatchAuth(config, FALSE, NoItem)
            /\ lastAuthEvent' = AuthDetail(FALSE)
            /\ threadId' = Null /\ previousThreadId' = Null
            /\ lastOp' = Op("handleDisconnect", "Home", "none")
       ELSE /\ UNCHANGED <<cookies, authStatus, ls, config, lastAuthEvent,
                           threadId, previousThreadId>>
            /\ lastOp' = Op("handleDisconnect", "none", "none")
    /\ UNCHANGED <<storeVars, mounted, statusPending, lastRepoEvent,
                   lastApplied, env, request, response, pureVars>>

\* What local storage can hold when the page is first loaded.
InitialItems ==
    [repo : {NoItem, Corrupt, RepoItem("octocat", "Hello-World", "main")},
     auth : {NoItem, Corrupt, AuthItem("t1")}]

Init ==
    /\ PageIdle
    /\ PureIdle
    /\ ls \in InitialItems
    /\ env = [clientId |-> TRUE, clientSecret |-> TRUE]
    /\ cookies \in {NoCookies,
                    [NoCookies EXCEPT !.github_access_token = "t1",
                                      !.github_user = UserCookieOf("t1")]}
    /\ request = NoRequest
    /\ response = NoResponse

Next ==
    \/ Mount
    \/ Reload
    \/ RunSave
    \/ \E a \in RepoArgs : setRepoAction(a[1], a[2], a[3])
    \/ disconnect
    \/ \E t \in Tokens : setAuth(t)
    \/ \E t \in Tokens : validateSucceeds(t)
    \/ \E t \in Tokens, why \in {"not_ok", "throw"} : validateFails(t, why)
    \/ clearAuth
    \/ \E id \in ThreadIds : switchThread(id)
    \/ \E ok \in BOOLEAN : checkAuth(ok)
    \/ \E ok \in BOOLEAN : handleDisconnect(ok)

Spec == Init /\ [][Next]_vars

(***************************************************************************)
(* The selection alone: the operations of the store on owner, repo and     *)
(* branch, with the texts a user gives to parseAndSetRepo.                 *)
(***************************************************************************)

\* What is typed into the repository field.
RepoUrls ==
    {"https://github.com/facebook/react/tree/dev",
     "git@github.com:octocat/Hello-World.git",
     " facebook/react ",
     "github.com/octocat",
     "not a repo",
     ""}

NextRepo ==
    \/ Mount
    \/ Reload
    \/ RunSave
    \/ \E a \in RepoArgs : setRepoAction(a[1], a[2], a[3])
    \/ \E url \in RepoUrls : parseAndSetRepo(url)
    \/ disconnect

SpecRepo == Init /\ [][NextRepo]_vars

(***************************************************************************)
(* Claims about the OAuth handlers (checked under SpecOAuth)               *)
(***************************************************************************)

SessionCookieSet(resp) ==
    "github_access_token" \in DOMAIN resp.set \/ "github_user" \in DOMAIN resp.set

ErrorRedirectToChat(resp) ==
    /\ resp.status = RedirectStatus
    /\ resp.location = "/chat"
    /\ resp.error # Null
    /\ resp.auth = Null

\* C1: a callback whose `state` parameter differs from the github_oauth_state
\* cookie, or that carries no such cookie, is answered by a redirect to /chat
\* with an error parameter, makes neither the token POST nor the profile
\* fetch, and sets neither session cookie.
C1_StateMismatchRejected ==
    (/\ response.handler = "callback"
     /\ (request.storedState = Null \/ request.state # request.storedState))
    => /\ ErrorRedirectToChat(response)
       /\ ~response.tokenPost
       /\ ~response.userFetch
       /\ ~SessionCookieSet(response)

\* The state comparison itself decided: a code, no provider error, a stored
\* cookie, full configuration, and a different `state` parameter.
C1_Witness ==
    /\ response.handler = "callback"
    /\ request.error = Null /\ request.code = "c1"
    /\ request.storedState \in StateValues
    /\ request.state \in StateValues /\ request.state # request.storedState
    /\ env.clientId /\ env.clientSecret
    /\ request.tokenOutcome = "token" /\ request.userOutcome = "ok"
    /\ response.error = "Invalid state parameter"

\* The one path of the callback on which the session cookies may be set.
CallbackPathOk ==
    /\ request.error = Null
    /\ request.code \notin {Null, ""}
    /\ request.storedState \notin {Null, ""}
    /\ request.storedState = request.state
    /\ env.clientId /\ env.clientSecret
    /\ request.tokenOutcome \in {"token", "no_token"}
    /\ request.userOutcome = "ok"

\* C2: the callback sets the session cookies only when no provider error was
\* reported, a code was present, the state matched, id and secret were
\* configured, the token exchange returned no error and the profile fetch
\* succeeded; every other outcome (a thrown network error included) is a
\* redirect to /chat with an error parameter, no session cookie and no HTTP
\* error status.
C2_SessionOnlyOnSuccess ==
    response.handler = "callback" =>
        /\ SessionCookieSet(response) => CallbackPathOk
        /\ ~CallbackPathOk =>
                /\ ErrorRedirectToChat(response)
                /\ ~SessionCookieSet(response)
        /\ response.status < 400

\* A network error thrown by the token exchange, after every earlier check passed.
C2_Witness ==
    /\ response.handler = "callback"
    /\ request.storedState = request.state /\ request.state \in StateValues
    /\ request.tokenOutcome = "throw"
    /\ response.tokenPost
    /\ response.error = "Authentication failed"

\* C3: the callback deletes the github_oauth_state cookie on every outcome in
\* which it compared that cookie, on failure as well as on success.
C3_StateCookieDeletedAfterUse ==
    (/\ response.handler = "callback"
     /\ response.comparedState
     /\ request.storedState \in StateValues)
    => /\ "github_oauth_state" \in response.deleted
       /\ cookies.github_oauth_state = Null

\* C21 (as stated): GET /api/auth/status sets and clears no cookie and
\* changes no state, repeated calls with the same request cookies return the
\* same body, and the body has authenticated = true exactly when the
\* github_access_token cookie is present, with accessToken that cookie's
\* value, and is {authenticated: false, user: null, accessToken: null}
\* otherwise.
C21_StatusReflectsCookiePresence ==
    [][response'.handler = "status" =>
        /\ cookies' = cookies
        /\ DOMAIN response'.set = {} /\ response'.deleted = {}
        /\ (response.handler = "status" /\ request'.cookies = request.cookies)
                => response'.body = response.body
        /\ response'.body.authenticated
                <=> request'.cookies.github_access_token # Null
        /\ response'.body.authenticated
                => response'.body.accessToken = request'.cookies.github_access_token
        /\ ~response'.body.authenticated
                => response'.body =
                     [authenticated |-> FALSE, user |-> Null, accessToken |-> Null]
      ]_vars

\* C21 (amended): as above, with authenticated = true exactly when the
\* github_access_token cookie is present with a non-empty value.
C21_StatusReflectsNonEmptyCookie ==
    [][response'.handler = "status" =>
        /\ cookies' = cookies
        /\ DOMAIN response'.set = {} /\ response'.deleted = {}
        /\ (response.handler = "status" /\ request'.cookies = request.cookies)
                => response'.body = response.body
        /\ response'.body.authenticated
                <=> request'.cookies.github_access_token \notin {Null, ""}
        /\ response'.body.authenticated
                => response'.body.accessToken = request'.cookies.github_access_token
        /\ ~response'.body.authenticated
                => response'.body =
                     [authenticated |-> FALSE, user |-> Null, accessToken |-> Null]
      ]_vars

\* A status call of a browser that holds the session cookies of a completed
\* exchange.
C21_Witness ==
    /\ response.handler = "status"
    /\ cookies.github_access_token = "t2"
    /\ request.cookies = cookies
    /\ response.body = [authenticated |-> TRUE, user |-> UserCookieOf("t2"),
                        accessToken |-> "t2"]

\* C22: with the client id configured, the initiate handler answers with a
\* redirect to the provider's authorize URL whose state parameter is the value
\* it stores in the http-only github_oauth_state cookie with max-age 600 s;
\* without it, the answer has status 500, no redirect and no cookie.
C22_InitiateStateMatchesCookie ==
    response.handler = "initiate" =>
        IF env.clientId
        THEN /\ response.status = RedirectStatus
             /\ response.location = "https://github.com/login/oauth/authorize"
             /\ response.stateParam \in StateValues
             /\ DOMAIN response.set = {"github_oauth_state"}
             /\ response.set["github_oauth_state"] = response.stateParam
             /\ response.attrs["github_oauth_state"] = CookieAttrs(TRUE, 600)
             /\ cookies.github_oauth_state = response.stateParam
        ELSE /\ response.status = 500
             /\ response.location = Null
             /\ response.stateParam = Null
             /\ DOMAIN response.set = {} /\ response.deleted = {}
             /\ cookies = request.cookies

\* An initiate call of a browser that still holds the state cookie of an
\* earlier call: the cookie is replaced by the state of the new redirect.
C22_Witness ==
    /\ response.handler = "initiate"
    /\ env.clientId
    /\ request.cookies.github_oauth_state = "s1"
    /\ response.stateParam = "s2"
    /\ cookies.github_oauth_state = "s2"

(***************************************************************************)
(* Claims about the store and the page (checked under Spec)                *)
(***************************************************************************)

\* C4: when a setAuth validation fails (non-success status or a thrown
\* network error) and no other validation is in flight, then right after it
\* auth is {accessToken: null, isAuthenticated: false, user: null},
\* connectionError is a message, isConnecting is false and gitstory-auth is
\* absent from local storage, whatever token was stored before.
C4_FailedValidationClearsAuth ==
    (lastOp.op = "authFail" /\ InFlightTotal = 0)
    => /\ auth = [accessToken |-> Null, isAuthenticated |-> FALSE, user |-> Null]
       /\ connectionError # Null
       /\ ~isConnecting
       /\ ls.auth = NoItem

\* A validation failed while the store was authenticated and a token was stored.
C4_Witness ==
    /\ lastOp.op = "authFail"
    /\ InFlightTotal = 0
    /\ lastOp.wasAuth
    /\ lastOp.hadToken

\* C5: in every reachable state auth.isAuthenticated holds exactly when
\* auth.accessToken is non-null, and only when the validation response last
\* applied to the store was a success for that token.
C5_AuthenticatedIffValidated ==
    /\ auth.isAuthenticated <=> auth.accessToken # Null
    /\ auth.isAuthenticated =>
            /\ lastApplied.ok
            /\ lastApplied.token = auth.accessToken

\* The store is authenticated by a second success, applied while a further
\* validation is still in flight.
C5_Witness ==
    /\ auth.isAuthenticated
    /\ lastOp.op = "authOk" /\ lastOp.wasAuth
    /\ InFlightTotal > 0

\* C6: the descriptor list of useGitHubMcp is empty after a setAuth that fails
\* following an earlier successful one (the case of the claim the catch block
\* of validateAndSetAuth decides; the claim also names the states right after
\* disconnect() and clearAuth()).
C6_NoDescriptorAfterFailedSetAuth ==
    (lastOp.op = "authFail" /\ lastOp.wasAuth) => mcpServers(config) = << >>

\* C8: after disconnect() owner and repo are null and branch is "main",
\* gitstory-repo is absent from local storage and no pending save effect
\* re-creates it, and a fresh load of the store then starts with no selection.
\* (The notification with null detail is dispatched by every disconnect().)
C8_DisconnectLeavesNoSelection ==
    /\ lastOp.op = "disconnect" =>
            owner = Null /\ repo = Null /\ branch = "main"
    /\ lastOp.phase = "disconnected" => ls.repo = NoItem
    /\ lastOp.phase = "loaded" => owner = Null /\ repo = Null

\* C10: every write to and every removal of gitstory-repo and gitstory-auth
\* is made by RepoProvider.
C10_StoreIsSingleWriter ==
    lastOp.writer \in {"none", "RepoProvider"}

\* C11: after a call setRepo(owner, repo, branch?) with non-empty owner and
\* repo, once no effect is pending, gitstory-repo holds the store's {owner,
\* repo, branch} and the gitstory-repo-changed notification last dispatched
\* carries that value.
C11_SetRepoPersistsAndNotifies ==
    (lastOp.phase = "setRepo" /\ pendingSave = NoEffect) =>
        /\ ls.repo = RepoItem(owner, repo, branch)
        /\ lastRepoEvent = RepoDetail(owner, repo, branch)

\* C15: setAuth calls are neither deduplicated nor cancelled: every call
\* adds a validation to those in flight and takes none away, and every
\* response, in the order of arrival, is applied: after a success auth and
\* gitstory-auth hold the token of that response, after a failure none,
\* whichever call the response belongs to.
C15_EveryResponseAppliedInArrivalOrder ==
    [][/\ lastOp'.op = "setAuth"
            => /\ InFlightTotal' = InFlightTotal + 1
               /\ inflight'[lastOp'.issued] = inflight[lastOp'.issued] + 1
       /\ lastOp'.op = "authOk"
            => /\ InFlightTotal' = InFlightTotal - 1
               /\ auth' = [accessToken |-> lastApplied'.token,
                           isAuthenticated |-> TRUE,
                           user |-> UserOf(lastApplied'.token)]
               /\ ls'.auth = AuthItem(lastApplied'.token)
       /\ lastOp'.op = "authFail"
            => /\ InFlightTotal' = InFlightTotal - 1
               /\ auth' = NoAuth
               /\ ls'.auth = NoItem]_vars

\* setAuth(t1) and then setAuth(t2) were issued, and the response for t1
\* arrived last: the store and the storage hold t1.
C15_Witness ==
    /\ lastOp.op = "authOk"
    /\ lastOp.wasAuth
    /\ lastOp.issued = "t2"
    /\ InFlightTotal = 0
    /\ auth.accessToken = "t1"
    /\ ls.auth = AuthItem("t1")

\* C16: parseAndSetRepo(input) returns what parseGitHubUrl(input) returns;
\* when that is null, owner, repo, branch, gitstory-repo and the notifications
\* (those dispatched and the one still pending) are as before the call;
\* otherwise the store's owner and repo are the parsed ones.
C16_ParseAndSetRepoFrame ==
    [][lastOp'.op = "parseAndSetRepo"
         => LET p == parseGitHubUrl(input')
            IN /\ parsed' = p
               /\ p = NullResult
                    => /\ <<owner, repo, branch>>' = <<owner, repo, branch>>
                       /\ ls' = ls
                       /\ <<lastRepoEvent, config, pendingSave>>'
                            = <<lastRepoEvent, config, pendingSave>>
               /\ p # NullResult
                    => owner' = p.owner /\ repo' = p.repo]_vars

\* An input that does not parse was given while a selection was held and
\* its save was pending.
C16_Witness ==
    /\ lastOp.op = "parseAndSetRepo"
    /\ parsed = NullResult
    /\ input.text = "github.com/octocat"
    /\ owner = "facebook"
    /\ pendingSave # NoEffect

\* C17: setRepo(owner, repo) without a branch overwrites owner and repo and
\* leaves the branch as it was ("main" when none was ever set); setRepo with
\* a branch sets the branch to it.
C17_SetRepoBranch ==
    [][\A a \in RepoArgs :
         setRepoAction(a[1], a[2], a[3])
            => /\ owner' = a[1] /\ repo' = a[2]
               /\ branch' = IF a[3] = Null THEN branch ELSE a[3]]_vars

\* setRepo without a branch was called on a store whose branch was "dev".
C17_Witness ==
    /\ lastOp.op = "setRepo"
    /\ <<owner, repo, branch>> = <<"octocat", "Hello-World", "dev">>

\* A key read as if a value that does not parse were absent.
AsIfAbsent(item) == IF item.kind = "corrupt" THEN NoItem ELSE item

\* C23: on load of the store and on mount of useGitHubMcp, a gitstory-repo or
\* gitstory-auth value that is not valid JSON is treated as if the key were
\* absent, and the other key, when valid, is still loaded: right after the
\* load, the store and the hook hold what the valid keys give them.
C23_CorruptKeyTreatedAsAbsent ==
    lastOp.op = "mount" =>
        LET r == AsIfAbsent(ls.repo)
            a == AsIfAbsent(ls.auth)
        IN /\ <<owner, repo>> = IF r.kind = "repo" THEN <<r.owner, r.repo>>
                                 ELSE <<Null, Null>>
           /\ \A t \in Tokens :
                inflight[t] = IF a.kind = "auth" /\ a.accessToken = t THEN 1 ELSE 0
           /\ isConnecting <=> a.kind = "auth"
           /\ config.owner = (IF r.kind = "repo" THEN r.owner ELSE Null)
           /\ config.repo = (IF r.kind = "repo" THEN r.repo ELSE Null)
           /\ config.accessToken = (IF a.kind = "auth" THEN a.accessToken ELSE Null)

\* C24: on every path that dispatches gitstory-auth-changed with
\* isAuthenticated true (a validation that succeeded, the page-level status
\* check), gitstory-auth already holds the accepted token when the
\* notification is dispatched, so the hook's listener, which reads the key,
\* takes that token.
C24_TokenWrittenBeforeAuthNotification ==
    [][/\ lastOp'.op = "authOk" =>
            /\ lastAuthEvent' = AuthDetail(TRUE)
            /\ ls'.auth = AuthItem(lastApplied'.token)
            /\ config'.accessToken = lastApplied'.token
       /\ (lastOp'.op = "checkAuth" /\ lastOp'.writer = "Home") =>
            /\ lastAuthEvent' = AuthDetail(TRUE)
            /\ ls'.auth = AuthItem(authStatus')
            /\ config'.accessToken = authStatus'
      ]_vars

\* The status check accepted the cookie's token while gitstory-auth was
\* absent and the hook had none; the hook holds the token now.
C24_Witness ==
    /\ lastOp.op = "checkAuth" /\ lastOp.writer = "Home"
    /\ ~lastOp.hadToken
    /\ authStatus = "t1"
    /\ config.accessToken = "t1"
    /\ ~auth.isAuthenticated

\* C25: when the current thread id changes from one id to a different id,
\* gitstory-repo is removed and gitstory-repo-changed is dispatched with a
\* null detail; the first thread id observed after mount removes nothing and
\* dispatches nothing.
C25_ThreadSwitchClearsRepo ==
    [][(threadId' # threadId /\ threadId' # Null) =>
            IF threadId # Null
            THEN /\ ls'.repo = NoItem
                 /\ ls'.auth = ls.auth
                 /\ lastRepoEvent' = NullDetail
                 /\ config'.owner = Null /\ config'.repo = Null
            ELSE /\ ls' = ls
                 /\ lastRepoEvent' = lastRepoEvent
                 /\ lastAuthEvent' = lastAuthEvent
                 /\ config' = config
      ]_vars

\* A switch from th1 to th2 removed the key of a selection the hook held.
C25_Witness ==
    /\ lastOp.op = "switchThread"
    /\ threadId = "th2"
    /\ ls.repo = NoItem
    /\ lastRepoEvent = NullDetail
    /\ owner = "facebook"
    /\ config.owner = Null

\* C26: whenever the store holds an owner and a repo and no effect is pending,
\* after any sequence of setRepo, disconnect, thread switches and page-level
\* disconnects, gitstory-repo holds the store's owner, repo and branch.
C26_StorageHoldsTheSelection ==
    (/\ mounted
     /\ ~Falsy(owner) /\ ~Falsy(repo)
     /\ pendingSave = NoEffect)
    => ls.repo = RepoItem(owner, repo, branch)

\* C28: isConnecting is true exactly while at least one setAuth validation is
\* in flight, also when two calls overlap.
C28_ConnectingWhileInFlight ==
    isConnecting <=> InFlightTotal > 0

(***************************************************************************)
(* parseGitHubUrl as a specification of its own: the input is any text     *)
(* made of a seed and up to MaxTokens tokens, or a value that is no string *)
(***************************************************************************)

MaxTokens == 4

\* What an input starts with: nothing, white space, the three prefixes the
\* patterns know and two they do not.
SeedPrefixes == {"", " ", "git@github.com:", "github.com/", "https://github.com/",
                 "http://github.com/", "https://www.github.com/"}
SeedOwners == {"", "ab/", "a.b/"}
BodyTokens == {"ab", ".git", "/", "/tree/", " ", "\n"}

RECURSIVE TextsUpTo(_)
TextsUpTo(n) ==
    IF n = 0 THEN {p \o o : p \in SeedPrefixes, o \in SeedOwners}
    ELSE LET shorter == TextsUpTo(n - 1)
         IN shorter \cup {t \o k : t \in shorter, k \in BodyTokens}

\* null, undefined, a number: the callers pass what the user typed, but the
\* function guards against any value.
NonStrings == {[isString |-> FALSE, text |-> v] : v \in {"null", "undefined", "42"}}

ParseInputs ==
    {[isString |-> TRUE, text |-> t] : t \in TextsUpTo(MaxTokens)} \cup NonStrings

RestIdle ==
    /\ env = [clientId |-> TRUE, clientSecret |-> TRUE]
    /\ cookies = NoCookies
    /\ request = NoRequest
    /\ response = NoResponse
    /\ PageIdle
    /\ ls = [repo |-> NoItem, auth |-> NoItem]

\* The call parseGitHubUrl(input).
Parse ==
    /\ parsed = NotCalled
    /\ parsed' = parseGitHubUrl(input)
    /\ UNCHANGED <<input, messages, history, registry, canvasVars>>
    /\ UNCHANGED <<oauthVars, storeVars, pageVars>>

InitParse ==
    /\ RestIdle
    /\ input \in ParseInputs
    /\ parsed = NotCalled
    /\ messages = << >>
    /\ history = << >>
    /\ registry = << >>
    /\ showCanvas = TRUE
    /\ activeMessageId = Null
    /\ lastCanvasOp = [op |-> "none", messageId |-> Null]

NextParse == Parse

SpecParse == InitParse /\ [][NextParse]_vars

(***************************************************************************)
(* The forms of §4.1, read off the text segment by segment.                *)
(***************************************************************************)

\* The "/"-separated segments of a text.
RECURSIVE Segments(_)
Segments(s) ==
    LET n == SegmentLen(s)
    IN IF n = Len(s) THEN <<s>>
       ELSE <<Take(s, n)>> \o Segments(Drop(s, n + 1))

\* <repo>[.git]: the segment without one ".git" ending, when a name remains.
RepoOf(segment) ==
    IF EndsWith(segment, ".git") /\ Len(segment) > 4
    THEN Take(segment, Len(segment) - 4) ELSE segment

\* git@github.com:<owner>/<repo>[.git]
SshForm(t) ==
    LET segs == Segments(Drop(t, 15))
    IN IF /\ StartsWith(t, "git@github.com:")
          /\ Len(segs) = 2 /\ segs[1] # "" /\ segs[2] # ""
       THEN Parsed(segs[1], RepoOf(segs[2]), Null)
       ELSE NullResult

\* [http(s)://]github.com/<owner>/<repo>[.git][/tree/<branch>][/...] : with
\* oneLine, the ignored trailing path may hold no line terminator.
HttpsForm(t, oneLine) ==
    LET u == IF StartsWith(t, "https://") THEN Drop(t, 8)
             ELSE IF StartsWith(t, "http://") THEN Drop(t, 7) ELSE t
        segs == Segments(Drop(u, 11))
        hasBranch == Len(segs) >= 4 /\ segs[3] = "tree" /\ segs[4] # ""
        ignoredFrom == IF hasBranch THEN 5 ELSE 3
        ignored == UNION {CharsOf(segs[i]) : i \in ignoredFrom..Len(segs)}
    IN IF /\ StartsWith(u, "github.com/")
          /\ Len(segs) >= 2 /\ segs[1] # "" /\ segs[2] # ""
          /\ oneLine => ignored \cap LineTerminators = {}
       THEN Parsed(segs[1], RepoOf(segs[2]), IF hasBranch THEN segs[4] ELSE Null)
       ELSE NullResult

\* <owner>/<repo>, owner in [a-zA-Z0-9_-]+ and repo in [a-zA-Z0-9_.-]+
ShorthandForm(t) ==
    LET segs == Segments(t)
    IN IF /\ Len(segs) = 2 /\ segs[1] # "" /\ segs[2] # ""
          /\ CharsOf(segs[1]) \subseteq OwnerChars
          /\ CharsOf(segs[2]) \subseteq RepoChars
       THEN Parsed(segs[1], segs[2], Null)
       ELSE NullResult

\* The forms in order, the first match winning; null for a text of no form.
FormsOf(t, oneLine) ==
    IF SshForm(t).kind = "parsed" THEN SshForm(t)
    ELSE IF HttpsForm(t, oneLine).kind = "parsed" THEN HttpsForm(t, oneLine)
    ELSE ShorthandForm(t)

\* C9 (as stated): parseGitHubUrl returns exactly the {owner, repo, branch?}
\* encoded in the input when the input is of the SSH, the HTTPS or the
\* shorthand form, the first form winning, and null for every other input,
\* empty and non-string input included.
C9_ParseReturnsWhatTheFormsEncode ==
    parsed # NotCalled =>
        parsed = IF input.isString THEN FormsOf(input.text, FALSE) ELSE NullResult

\* C9 (amended): the same of the input with its leading and trailing white
\* space removed, the trailing path the HTTPS form ignores being on one line:
\* parseGitHubUrl returns what the forms encode in the trimmed input, and null
\* when the trimmed input is of no form or the input is no string.
C9_ParseReturnsWhatTheTrimmedInputEncodes ==
    parsed # NotCalled =>
        parsed = IF input.isString THEN FormsOf(Trim(input.text), TRUE)
                 ELSE NullResult

\* An HTTPS input with a branch and white space around it has been parsed.
C9_Witness ==
    /\ input.isString
    /\ input.text # Trim(input.text)
    /\ StartsWith(input.text, "github.com/")
    /\ parsed = Parsed("ab", "ab", "ab")

(***************************************************************************)
(* Component naming: canvas-panel.tsx:28-179 and the registry of           *)
(* message-thread-full.tsx:429-541. A React element is a record            *)
(*   [valid, typeKind, name, displayName, child, props]                    *)
(* where typeKind is "function", "string" (a host tag) or "object" (a      *)
(* forwardRef/memo wrapper, name and displayName being those of its        *)
(* render function), child is the type of the sole child element or        *)
(* NoChild, and props is the set of the shapes the input properties have.  *)
(***************************************************************************)

UpperCase == "ABCDEFGHIJKLMNOPQRSTUVWXYZ"
LowerCase == "abcdefghijklmnopqrstuvwxyz"

LowerChar(c) ==
    IF HasChar(UpperCase, c)
    THEN CharAt(LowerCase, CHOOSE i \in 1..Len(UpperCase) : CharAt(UpperCase, i) = c)
    ELSE c

\* String.prototype.toLowerCase
RECURSIVE toLowerCase(_)
toLowerCase(s) ==
    IF s = "" THEN "" ELSE LowerChar(CharAt(s, 1)) \o toLowerCase(Drop(s, 1))

\* String.prototype.includes
includes(s, sub) ==
    \E i \in 0..(Len(s) - Len(sub)) : SubSeq(s, i + 1, i + Len(sub)) = sub

NoChild == [typeKind |-> "none", name |-> "", displayName |-> ""]
Element(kind, name, displayName, child, props) ==
    [valid |-> TRUE, typeKind |-> kind, name |-> name,
     displayName |-> displayName, child |-> child, props |-> props]
\* A rendered value that is no React element (a string, a number).
NotAnElement ==
    [valid |-> FALSE, typeKind |-> "none", name |-> "", displayName |-> "",
     child |-> NoChild, props |-> {}]
\* renderedComponent of a message without one.
NoComponent == [NotAnElement EXCEPT !.typeKind = "null"]

\* a || b on strings
OrString(a, b) == IF a # "" THEN a ELSE b

\* canvas-panel.tsx:28-36, in the order Object.entries lists them.
CanvasDisplayNames ==
    << <<"PRSummary", "PR Summary">>,
       <<"CommitTimeline", "Commit Timeline">>,
       <<"RiskHeatmap", "Risk Heatmap">>,
       <<"FileViewer", "File Viewer">>,
       <<"RepoSummary", "Repository Overview">>,
       <<"ContributorNetwork", "Contributor Network">>,
       <<"DiffViewer", "Diff Viewer">> >>

\* message-thread-full.tsx:429-434, the titles.
COMPONENT_DISPLAY_NAMES ==
    << <<"PRSummary", "PR Summary">>,
       <<"CommitTimeline", "Commit Timeline">>,
       <<"RiskHeatmap", "Risk Heatmap">>,
       <<"FileViewer", "File Viewer">> >>

\* for (const [key, value] of Object.entries(names)) if (typeName
\* .toLowerCase().includes(key.toLowerCase())) return value; "" when the
\* loop ends without a return.
KnownName(names, typeName) ==
    LET hits == {i \in 1..Len(names) :
                    includes(toLowerCase(typeName), toLowerCase(names[i][1]))}
    IN IF hits = {} THEN "" ELSE names[Min(hits)][2]

\* canvas-panel.tsx:48-60
CanvasTypeName(c) ==
    IF c.typeKind = "function" THEN OrString(c.displayName, c.name)
    ELSE IF c.typeKind = "string" THEN c.name
    ELSE IF c.typeKind = "object" THEN OrString(c.displayName, c.name)
    ELSE ""

\* canvas-panel.tsx:72-80
CanvasChildTypeName(child) ==
    IF child.typeKind \in {"function", "object"}
    THEN OrString(child.displayName, child.name)
    ELSE ""

\* canvas-panel.tsx:89-124
CanvasPropsName(props) ==
    IF "data[0].sha" \in props THEN "Commit Timeline"
    ELSE IF "fullName" \in props /\ ({"structure", "topics"} \cap props # {})
    THEN "Repository Overview"
    ELSE IF {"prNumber", "prUrl"} \cap props # {} THEN "PR Summary"
    ELSE IF "files[0].riskScore" \in props THEN "Risk Heatmap"
    ELSE IF {"contributors", "collaborations"} \subseteq props
    THEN "Contributor Network"
    ELSE ""

CanvasFallbackName_AlwaysComponent(typeName) ==
    LET l == toLowerCase(typeName)
    IN IF includes(l, "pr") \/ includes(l, "pull") THEN "PR Summary"
       ELSE IF includes(l, "commit") /\ includes(l, "timeline") THEN "Commit Timeline"
       ELSE IF includes(l, "risk") \/ includes(l, "heatmap") THEN "Risk Heatmap"
       ELSE IF includes(l, "diff") THEN "Diff Viewer"
       ELSE IF includes(l, "repo") \/ includes(l, "summary") THEN "Repository Overview"
       ELSE IF includes(l, "contributor") \/ includes(l, "network")
       THEN "Contributor Network"
       ELSE IF includes(l, "file") THEN "File Viewer"
       ELSE "Component"

\* canvas-panel.tsx:126-136
CanvasFallbackName(typeName) ==
    LET l == toLowerCase(typeName)
    IN IF includes(l, "pr") \/ includes(l, "pull") THEN "PR Summary"
       ELSE IF includes(l, "commit") /\ includes(l, "timeline") THEN "Commit Timeline"
       ELSE IF includes(l, "risk") \/ includes(l, "heatmap") THEN "Risk Heatmap"
       ELSE IF includes(l, "diff") THEN "Diff Viewer"
       ELSE IF includes(l, "repo") \/ includes(l, "summary") THEN "Repository Overview"
       ELSE IF includes(l, "contributor") \/ includes(l, "network")
       THEN "Contributor Network"
       ELSE IF includes(l, "file") THEN "File Viewer"
       ELSE OrString(typeName, "Component")

\* canvas-panel.tsx:42-137
getComponentDisplayName(c) ==
    IF ~c.valid THEN "Component"
    ELSE LET typeName == CanvasTypeName(c)
             byType == KnownName(CanvasDisplayNames, typeName)
             byChild == IF c.child # NoChild
                        THEN KnownName(CanvasDisplayNames, CanvasChildTypeName(c.child))
                        ELSE ""
             byProps == CanvasPropsName(c.props)
         IN IF byType # "" THEN byType
            ELSE IF byChild # "" THEN byChild
            ELSE IF byProps # "" THEN byProps
            ELSE CanvasFallbackName(typeName)

\* message-thread-full.tsx:439-476, the title.
getBaseComponentInfo(c) ==
    IF ~c.valid THEN "Component"
    ELSE LET typeName == IF c.typeKind \in {"function", "string"} THEN c.name ELSE ""
             known == KnownName(COMPONENT_DISPLAY_NAMES, typeName)
             l == toLowerCase(typeName)
         IN IF known # "" THEN known
            ELSE IF includes(l, "pr") \/ includes(l, "pull") THEN "PR Summary"
            ELSE IF includes(l, "commit") \/ includes(l, "timeline") THEN "Commit Timeline"
            ELSE IF includes(l, "risk") \/ includes(l, "heatmap") THEN "Risk Heatmap"
            ELSE IF includes(l, "file") THEN "File Viewer"
            ELSE OrString(typeName, "Component")

MaxMessages == 4

\* What the assistant renders: the registered components (lib/tambo.ts) by
\* name, one whose name a production build shortened, one inside a wrapper,
\* a forwardRef component, and a text.
RenderedComponents ==
    {Element("function", "RiskHeatmap", "", NoChild, {"files[0].riskScore"}),
     Element("function", "PRSummary", "", NoChild, {"prNumber"}),
     Element("function", "a", "", NoChild, {"files[0].riskScore"}),
     Element("function", "Wrapper", "", [typeKind |-> "function", name |-> "CommitTimeline",
                                         displayName |-> ""], {}),
     Element("object", "DiffViewer", "", NoChild, {}),
     NotAnElement}

\* getComponentDisplayName and getBaseComponentInfo of every component a
\* message can carry, evaluated once.
CanvasBaseNames ==
    [c \in RenderedComponents |-> getComponentDisplayName(c)]
RegistryBaseNames ==
    [c \in RenderedComponents |-> getBaseComponentInfo(c)]
CanvasBaseName(c) == CanvasBaseNames[c]
RegistryBaseName(c) == RegistryBaseNames[c]

\* .filter(m => m.role === "assistant" && m.renderedComponent && !m.isCancelled)
Rendered(m) ==
    /\ m.role = "assistant"
    /\ m.renderedComponent # NoComponent
    /\ ~m.isCancelled

\* counts[key] = (counts[key] || 0) + 1
Increment(counts, key) ==
    [k \in DOMAIN counts \cup {key} |->
        IF k = key
        THEN (IF key \in DOMAIN counts THEN counts[key] ELSE 0) + 1
        ELSE counts[k]]

\* The counters after the first n entries of the list went through the loop.
RECURSIVE CountsAfter(_, _)
CountsAfter(list, n) ==
    IF n = 0 THEN << >>
    ELSE Increment(CountsAfter(list, n - 1), list[n].baseName)

displayName_BaseOnly(baseName, instanceNumber, totalOfType) == baseName

displayName_CountingDown(baseName, instanceNumber, totalOfType) ==
    IF totalOfType > 1
    THEN baseName \o " #" \o ToString(totalOfType - instanceNumber + 1)
    ELSE baseName

displayName_FromZero(baseName, instanceNumber, totalOfType) ==
    IF totalOfType > 1
    THEN baseName \o " #" \o ToString(instanceNumber - 1)
    ELSE baseName

\* totalOfType > 1 ? `${c.baseName} #${instanceNumber}` : c.baseName
displayName(baseName, instanceNumber, totalOfType) ==
    IF totalOfType > 1
    THEN baseName \o " #" \o ToString(instanceNumber)
    ELSE baseName

\* The two passes over the base names: typeCounts, then typeInstanceCounts
\* and the label of each entry.
Numbered(list) ==
    LET typeCounts == CountsAfter(list, Len(list))
    IN [i \in 1..Len(list) |->
          [messageId |-> list[i].messageId,
           component |-> list[i].component,
           label |-> displayName(list[i].baseName,
                                 CountsAfter(list, i)[list[i].baseName],
                                 typeCounts[list[i].baseName])]]

\* canvas-panel.tsx:140-179
componentsHistory(msgs) ==
    LET shown == SelectSeq(msgs, Rendered)
    IN Numbered([i \in 1..Len(shown) |->
                   [messageId |-> shown[i].id,
                    component |-> shown[i].renderedComponent,
                    baseName |-> CanvasBaseName(shown[i].renderedComponent)]])

\* message-thread-full.tsx:498-541; label is the title.
components(msgs) ==
    LET shown == SelectSeq(msgs, Rendered)
    IN Numbered([i \in 1..Len(shown) |->
                   [messageId |-> shown[i].id,
                    component |-> shown[i].renderedComponent,
                    baseName |-> RegistryBaseName(shown[i].renderedComponent)]])

\* The messages a thread receives.
ThreadMessages ==
    {[role |-> "assistant", renderedComponent |-> c] : c \in RenderedComponents}
    \cup {[role |-> "assistant", renderedComponent |-> NoComponent],
          [role |-> "user", renderedComponent |-> NoComponent]}

\* message-thread-full.tsx:225-230; the filter is that of componentsHistory.
hasRenderedComponents(list) == Len(list) > 0

CanvasMounted_IgnoringShow(list, show) == hasRenderedComponents(list)

\* message-thread-full.tsx:404-411: CanvasPanel is rendered.
CanvasMounted(list, show) == hasRenderedComponents(list) /\ show

AutoSelect_First(list, active) ==
    IF Len(list) > 0 /\ active = Null THEN list[1].messageId ELSE active

\* canvas-panel.tsx:197-203: the effect selects the latest record when there
\* are records and no message is active.
AutoSelect(list, active) ==
    IF Len(list) > 0 /\ active = Null THEN list[Len(list)].messageId ELSE active

\* message-thread-full.tsx:280-284: the effect runs when hasRenderedComponents
\* changes and shows the canvas when it became true.
ShowAfter(before, after, show) ==
    IF hasRenderedComponents(after) /\ ~hasRenderedComponents(before)
    THEN TRUE ELSE show

\* activeMessageId after the renders and effects that follow a change: the
\* state of an unmounted panel is gone, a panel that mounts starts from
\* useState(null) (canvas-panel.tsx:23), and the effect of lines 197-203 runs.
ActiveAfter(wasMounted, list, show, active) ==
    IF ~CanvasMounted(list, show) THEN Null
    ELSE AutoSelect(list, IF wasMounted THEN active ELSE Null)

\* The renders that follow a change of thread.messages.
ThreadRender(op) ==
    /\ history' = componentsHistory(messages')
    /\ registry' = components(messages')
    /\ showCanvas' = ShowAfter(history, history', showCanvas)
    /\ activeMessageId' = ActiveAfter(CanvasMounted(history, showCanvas),
                                      history', showCanvas', activeMessageId)
    /\ lastCanvasOp' = [op |-> op, messageId |-> Null]

\* The id of the n-th message of the thread.
MessageId(n) == "m" \o ToString(n)

\* The thread gets a message; the memos are computed again.
ReceiveMessage(m) ==
    /\ Len(messages) < MaxMessages
    /\ messages' = Append(messages,
                          [id |-> MessageId(Len(messages) + 1), role |-> m.role,
                           renderedComponent |-> m.renderedComponent,
                           isCancelled |-> FALSE])
    /\ ThreadRender("receive")
    /\ UNCHANGED <<input, parsed>>
    /\ UNCHANGED <<oauthVars, storeVars, pageVars>>

\* The generation of message i is cancelled.
CancelMessage(i) ==
    /\ i \in 1..Len(messages)
    /\ messages[i].role = "assistant"
    /\ ~messages[i].isCancelled
    /\ messages' = [messages EXCEPT ![i].isCancelled = TRUE]
    /\ ThreadRender("cancel")
    /\ UNCHANGED <<input, parsed>>
    /\ UNCHANGED <<oauthVars, storeVars, pageVars>>

InitLabels ==
    /\ RestIdle
    /\ PureIdle

NextLabels ==
    \/ \E m \in ThreadMessages : ReceiveMessage(m)
    \/ \E i \in 1..MaxMessages : CancelMessage(i)

SpecLabels == InitLabels /\ [][NextLabels]_vars

\* The records of a list are those of the assistant's rendered, not
\* cancelled messages in message order, and each label is the base label,
\* followed by " #k" for the k-th record of that base label when the base
\* label occurs more than once.
LabelsNumbered(list, base(_)) ==
    LET shown == SelectSeq(messages, Rendered)
    IN /\ Len(list) = Len(shown)
       /\ \A i \in 1..Len(list) :
            LET b == base(list[i].component)
                same == {j \in 1..Len(list) : base(list[j].component) = b}
                k == Cardinality({j \in same : j <= i})
            IN /\ list[i].messageId = shown[i].id
               /\ list[i].component = shown[i].renderedComponent
               /\ list[i].label = IF Cardinality(same) > 1
                                  THEN b \o " #" \o ToString(k)
                                  ELSE b

\* C7: in the canvas panel and in the registry, each record's label is its
\* inferred base label followed by " #k", k being the record's 1-based
\* position among the records of the same base label in message order, when
\* the base label occurs more than once in the filtered list, and the bare
\* base label when it occurs once.
C7_LabelsNumberedPerBaseLabel ==
    /\ LabelsNumbered(history, CanvasBaseName)
    /\ LabelsNumbered(registry, RegistryBaseName)

\* Three "Risk Heatmap" and one "PR Summary" are labelled.
C7_Witness ==
    LET labels == [i \in 1..Len(history) |-> history[i].label]
        IsRisk(l) == l # "PR Summary"
    IN /\ Len(history) = 4
       /\ SelectSeq(labels, IsRisk)
            = <<"Risk Heatmap #1", "Risk Heatmap #2", "Risk Heatmap #3">>
       /\ \E i \in 1..4 : labels[i] = "PR Summary"
       /\ registry = history

(***************************************************************************)
(* The canvas: the thread with the show-component signal and the close     *)
(* button (canvas-panel.tsx:181-219, message-thread-full.tsx:233-297).     *)
(***************************************************************************)

\* The ids of the messages that have a record.
RecordIds(list) == {list[i].messageId : i \in 1..Len(list)}

\* A tambo:showComponent event with detail.messageId = id is dispatched.
\* CanvasPanel's listener exists while the panel is mounted (canvas-panel.tsx
\* 183-193) and sets activeMessageId; MessageThreadFull's listener
\* (message-thread-full.tsx:287-297) sets showCanvas, which mounts the panel
\* when it was closed.
showComponent(id) ==
    /\ id \in RecordIds(history)
    /\ showCanvas' = TRUE
    /\ activeMessageId' =
         ActiveAfter(TRUE, history, showCanvas',
                     IF CanvasMounted(history, showCanvas) THEN id ELSE Null)
    /\ lastCanvasOp' = [op |-> "show", messageId |-> id]
    /\ UNCHANGED <<input, parsed, messages, history, registry>>
    /\ UNCHANGED <<oauthVars, storeVars, pageVars>>

\* canvas-panel.tsx:211-214 with onClose of message-thread-full.tsx:409: the
\* close button of the mounted panel.
handleClose ==
    /\ CanvasMounted(history, showCanvas)
    /\ showCanvas' = FALSE
    /\ activeMessageId' = ActiveAfter(TRUE, history, showCanvas', Null)
    /\ lastCanvasOp' = [op |-> "close", messageId |-> Null]
    /\ UNCHANGED <<input, parsed, messages, history, registry>>
    /\ UNCHANGED <<oauthVars, storeVars, pageVars>>

\* The messages of the canvas runs: two widgets and a message without one.
CanvasMessages ==
    {m \in ThreadMessages :
        \/ m.renderedComponent = NoComponent /\ m.role = "user"
        \/ m.renderedComponent.name \in {"RiskHeatmap", "PRSummary"}}

InitCanvas ==
    /\ RestIdle
    /\ PureIdle

NextCanvas ==
    \/ \E m \in CanvasMessages : ReceiveMessage(m)
    \/ \E i \in 1..MaxMessages : CancelMessage(i)
    \/ \E n \in 1..MaxMessages : showComponent(MessageId(n))
    \/ handleClose

SpecCanvas == InitCanvas /\ [][NextCanvas]_vars

\* C12: after a tambo:showComponent signal for a message that has a record,
\* the canvas is visible and that message's record is the active one, whether
\* the panel was open or closed when the signal was dispatched.
C12_ShowSignalActivatesRecord ==
    lastCanvasOp.op = "show" =>
        /\ CanvasMounted(history, showCanvas)
        /\ activeMessageId = lastCanvasOp.messageId

\* The id of the most recent record.
LatestId(list) == list[Len(list)].messageId

\* C13: the active selection goes from none to a record only to the last
\* (most recent) record, a shown panel with records never stays without a
\* selection, and once a selection exists the arrival of further messages
\* does not move it.
C13_AutoSelectLatestOnlyWithoutSelection ==
    [][/\ (activeMessageId = Null /\ activeMessageId' # Null)
            => activeMessageId' = LatestId(history')
       /\ (activeMessageId = Null /\ CanvasMounted(history', showCanvas'))
            => activeMessageId' # Null
       /\ (activeMessageId # Null /\ lastCanvasOp'.op = "receive")
            => activeMessageId' = activeMessageId]_vars

\* A further record arrived and the earlier selection stayed.
C13_Witness ==
    /\ lastCanvasOp.op = "receive"
    /\ Len(history) >= 2
    /\ activeMessageId = history[1].messageId
    /\ LatestId(history) # activeMessageId

\* C14: closing the panel sets the active selection to none and changes
\* neither the records nor the thread's messages, and the signal that shows
\* the panel again finds every record.
C14_CloseKeepsRecords ==
    [][/\ lastCanvasOp'.op = "close"
            => /\ activeMessageId' = Null
               /\ ~CanvasMounted(history', showCanvas')
               /\ history' = history /\ registry' = registry
               /\ messages' = messages
       /\ (lastCanvasOp.op = "close" /\ lastCanvasOp'.op = "show")
            => /\ CanvasMounted(history', showCanvas')
               /\ history' = history
               /\ history' = componentsHistory(messages')]_vars

\* A panel with two records was closed.
C14_Witness ==
    /\ lastCanvasOp.op = "close"
    /\ Len(history) = 2
    /\ ~showCanvas
    /\ activeMessageId = Null

(***************************************************************************)
(* The two name inferences as a specification of their own: the input is   *)
(* any element of a bounded set, or a value that is no element.            *)
(***************************************************************************)

\* The widgets registered with the assistant (lib/tambo.ts:11-129).
RegisteredWidgets ==
    {"CommitTimeline", "ContributorNetwork", "DiffViewer", "PRSummary", "RiskHeatmap"}

\* Names of element types: the registered widgets, the other names the
\* tables know, names the keywords hit, a name a production build shortened,
\* a wrapper, a host tag and no name.
TypeNames ==
    RegisteredWidgets \cup
    {"RepoSummary", "FileViewer", "CommitList", "ProfileCard", "a", "Wrapper", "div", ""}

DisplayNames == {"", "RiskHeatmap", "Card"}

ChildTypes ==
    {NoChild,
     [typeKind |-> "function", name |-> "CommitTimeline", displayName |-> ""],
     [typeKind |-> "object", name |-> "b", displayName |-> "PRSummary"],
     [typeKind |-> "function", name |-> "a", displayName |-> ""],
     [typeKind |-> "string", name |-> "div", displayName |-> ""]}

PropShapes ==
    {{}, {"data[0].sha"}, {"fullName", "topics"}, {"fullName"}, {"prUrl"},
     {"files[0].riskScore"}, {"contributors", "collaborations"}, {"contributors"}}

Elements ==
    {Element(k, n, dn, ch, ps) :
        k \in {"function", "string", "object"}, n \in TypeNames,
        dn \in DisplayNames, ch \in ChildTypes, ps \in PropShapes}
    \cup {NotAnElement}

\* The calls getComponentDisplayName(input) and getBaseComponentInfo(input).
InferNames ==
    /\ parsed = NotCalled
    /\ parsed' = [kind |-> "names",
                  canvas |-> getComponentDisplayName(input),
                  registry |-> getBaseComponentInfo(input)]
    /\ UNCHANGED <<input, messages, history, registry, canvasVars>>
    /\ UNCHANGED <<oauthVars, storeVars, pageVars>>

InitNames ==
    /\ RestIdle
    /\ input \in Elements
    /\ parsed = NotCalled
    /\ messages = << >>
    /\ history = << >>
    /\ registry = << >>
    /\ showCanvas = TRUE
    /\ activeMessageId = Null
    /\ lastCanvasOp = [op |-> "none", messageId |-> Null]

NextNames == InferNames

SpecNames == InitNames /\ [][NextNames]_vars

\* The type name the registry recovers (message-thread-full.tsx:445-451).
RegistryTypeName(c) ==
    IF c.typeKind \in {"function", "string"} THEN c.name ELSE ""

\* No strategy of the canvas panel matches the element.
CanvasNothingMatches(c) ==
    LET l == toLowerCase(CanvasTypeName(c))
    IN /\ c.valid
       /\ KnownName(CanvasDisplayNames, CanvasTypeName(c)) = ""
       /\ KnownName(CanvasDisplayNames, CanvasChildTypeName(c.child)) = ""
       /\ CanvasPropsName(c.props) = ""
       /\ \A k \in {"pr", "pull", "risk", "heatmap", "diff", "repo", "summary",
                    "contributor", "network", "file"} : ~includes(l, k)
       /\ ~(includes(l, "commit") /\ includes(l, "timeline"))

\* No strategy of the registry matches the element.
RegistryNothingMatches(c) ==
    LET l == toLowerCase(RegistryTypeName(c))
    IN /\ c.valid
       /\ KnownName(COMPONENT_DISPLAY_NAMES, RegistryTypeName(c)) = ""
       /\ \A k \in {"pr", "pull", "commit", "timeline", "risk", "heatmap", "file"} :
            ~includes(l, k)

\* C18 (as stated): when no inference strategy matches a rendered element,
\* the base label of its record is "Component", in the canvas panel and in
\* the registry.
C18_UnmatchedIsComponent ==
    parsed.kind = "names" =>
        /\ CanvasNothingMatches(input) => parsed.canvas = "Component"
        /\ RegistryNothingMatches(input) => parsed.registry = "Component"

\* C18 (amended): when no inference strategy matches a rendered element, the
\* base label is the type name recovered from the element when there is one,
\* and "Component" only when the recovered type name is empty.
C18_UnmatchedIsTypeNameOrComponent ==
    parsed.kind = "names" =>
        /\ CanvasNothingMatches(input) =>
              parsed.canvas = IF CanvasTypeName(input) = "" THEN "Component"
                              ELSE CanvasTypeName(input)
        /\ RegistryNothingMatches(input) =>
              parsed.registry = IF RegistryTypeName(input) = "" THEN "Component"
                                ELSE RegistryTypeName(input)

\* A host element no strategy matches was named, by both after its tag.
C18_Witness ==
    /\ parsed.kind = "names"
    /\ CanvasNothingMatches(input) /\ RegistryNothingMatches(input)
    /\ input.typeKind = "string"
    /\ parsed.canvas = "div" /\ parsed.registry = "div"

\* The records of the base label of record i that precede it.
SameBaseBefore(list, i, base(_)) ==
    {list[j].messageId : j \in {j \in 1..(i - 1) :
                                 base(list[j].component) = base(list[i].component)}}

LabelsStable(old, new, base(_)) ==
    \A i \in 1..Len(old), j \in 1..Len(new) :
        (/\ old[i].messageId = new[j].messageId
         /\ SameBaseBefore(old, i, base) = SameBaseBefore(new, j, base))
            => new[j].label = old[i].label

\* C19 (as stated): between two computations of the records, a record's
\* label changes only if the set of records of its base label that precede it
\* has changed; in particular a message appended to the thread changes no
\* existing label. For the canvas panel's list and the registry's.
C19_LabelChangesOnlyWithPredecessors ==
    [][/\ LabelsStable(history, history', CanvasBaseName)
       /\ LabelsStable(registry, registry', RegistryBaseName)]_vars

\* Whether the base label of record i occurs more than once in the list.
Multiple(list, i, base(_)) ==
    \E j \in 1..Len(list) :
        j # i /\ base(list[j].component) = base(list[i].component)

LabelsStableWhileMultiple(old, new, base(_)) ==
    \A i \in 1..Len(old), j \in 1..Len(new) :
        (/\ old[i].messageId = new[j].messageId
         /\ SameBaseBefore(old, i, base) = SameBaseBefore(new, j, base)
         /\ Multiple(old, i, base) <=> Multiple(new, j, base))
            => new[j].label = old[i].label

\* C19 (amended): a record's label changes only if the set of records of its
\* base label that precede it has changed, or its base label went from
\* occurring once to occurring more than once or back; a message appended to
\* the thread changes no label of a base label that already occurred more
\* than once or that the new message does not share.
C19_LabelChangesOnlyWithPredecessorsOrMultiplicity ==
    [][/\ LabelsStableWhileMultiple(history, history', CanvasBaseName)
       /\ LabelsStableWhileMultiple(registry, registry', RegistryBaseName)]_vars

\* A third record of a base label was appended and the two before it, and a
\* record of another base label, have the labels they had.
C19_Witness ==
    /\ lastCanvasOp.op = "receive"
    /\ Len(history) = 4
    /\ [i \in 1..4 |-> history[i].label]
         = <<"Risk Heatmap #1", "PR Summary", "Risk Heatmap #2", "Risk Heatmap #3">>
    /\ history[4].messageId = "m4"

\* C20: for a message that carries a rendered component of a registered
\* widget type, the label of the canvas panel equals the title of the
\* registry.
C20_CanvasLabelIsRegistryTitle ==
    (/\ parsed.kind = "names"
     /\ input.valid /\ input.typeKind = "function"
     /\ input.name \in RegisteredWidgets /\ input.displayName = ""
     /\ input.child = NoChild)
        => parsed.canvas = parsed.registry

\* The rendered components whose inferred base label contains "#", for the
\* canvas panel and for the registry.
HashInCanvasBase == {c \in RenderedComponents : includes(CanvasBaseNames[c], "#")}
HashInRegistryBase == {c \in RenderedComponents : includes(RegistryBaseNames[c], "#")}

NoTwoSameLabels(list, withHash) ==
    (\A i \in 1..Len(list) : list[i].component \notin withHash)
    => \A i, j \in 1..Len(list) : i # j => list[i].label # list[j].label

\* C29: within one computed record list, of the canvas panel or of the
\* registry, no two records carry the same label, provided no inferred base
\* label contains "#".
C29_LabelsUnique ==
    /\ NoTwoSameLabels(history, HashInCanvasBase)
    /\ NoTwoSameLabels(registry, HashInRegistryBase)

\* Four records, two of them of one base label and two of base labels of
\* their own.
C29_Witness ==
    /\ Len(history) = 4
    /\ [i \in 1..4 |-> history[i].label]
         = <<"Risk Heatmap #1", "Commit Timeline", "Risk Heatmap #2", "Component">>
    /\ Len(registry) = 4

\* C27: whenever the canvas panel is mounted with at least one record and its
\* effects have settled, the active selection is the message id of a record
\* of the current list.
C27_ActiveSelectionIsARecord ==
    CanvasMounted(history, showCanvas) => activeMessageId \in RecordIds(history)

\* C30: whenever a rendered component is added to the thread, the canvas is
\* visible afterwards, also when it had been closed while earlier components
\* existed.
C30_NewComponentShowsCanvas ==
    [][Len(history') > Len(history) => CanvasMounted(history', showCanvas')]_vars

====
